---- MODULE Spec2Model ----
(***************************************************************************)
(* The per-agent scheduler state of the agent resource manager             *)
(* (master/internal/rm/agentrm/agent_state.go): the slots of one agent,    *)
(* the materialized device view, the tracked containers, the agent-level   *)
(* enable/disable/drain switch and the snapshot kept in the database.      *)
(* One agentState is driven by one sequential handler, so every method is  *)
(* one atomic action.                                                       *)
(***************************************************************************)
EXTENDS Integers, Sequences, FiniteSets, Bags, TLC

\* ------------------------------------------------------------ bounds
\* Longest run of operations explored on one agent.
MaxSteps == 4

\* maxZeroSlotContainers as handed to newAgentState.
MaxZeroSlotContainers == 1

\* ------------------------------------------------------------ values
\* A nil *cproto.ID.
Nil == "nil"
\* The zero value of model.AllocationID, read from a map without the key.
NoAllocation == ""

\* Container IDs the scheduler uses, and the allocation each belongs to.
ContainerIDs == {"c1", "c2"}
AllocationFor == [c \in ContainerIDs |-> IF c = "c1" THEN "a1" ELSE "a2"]

\* Device IDs of the machine; an agent reports a prefix of them, so a smaller
\* inventory leaves the others as devices without a slot.
DeviceIDs == {0, 1}

\* device.Device: the ID and the descriptive properties (brand) of one device.
Device(i) == [ID |-> i, Brand |-> "cuda"]
AllDevices == {Device(i) : i \in DeviceIDs}

\* cproto.State values the model uses; "" is the zero value of a fresh record.
Unset == ""
Assigned == "ASSIGNED"
Running == "RUNNING"
Terminated == "TERMINATED"
ReportedStates == {Running, Terminated}

\* The pool of an agent that names none, and the pools agents are configured in.
defaultResourcePoolName == "default"
PoolNames == {defaultResourcePoolName, "gpu-pool"}

\* Sequences over S without repetition, of length exactly n / at most n.
RECURSIVE InjSeqs(_, _)
InjSeqs(S, n) ==
    IF n = 0 THEN {<<>>}
    ELSE UNION {{<<x>> \o t : t \in InjSeqs(S \ {x}, n - 1)} : x \in S}

InjSeqsUpTo(S, n) == UNION {InjSeqs(S, k) : k \in 0..n}

Range(s) == {s[i] : i \in DOMAIN s}

\* Device lists of container messages: any devices, in any order.
DeviceLists == InjSeqsUpTo(AllDevices, Cardinality(AllDevices))

\* Device inventories an agent reports in AgentStarted.
Inventories ==
    {[i \in 1..n |-> Device(i - 1)] : n \in 0..Cardinality(DeviceIDs)}
        \cup {<<Device(0), Device(0)>>}

\* Devices an agent can report on a reconnect: those of the machine, and device
\* 0 with another brand.
ReportedDevices == AllDevices \cup {[ID |-> 0, Brand |-> "rocm"]}

\* Device lists of an AgentStarted that is compared with the known slots: up to
\* two different devices in any order.
DeviceReports == InjSeqsUpTo(ReportedDevices, 2)

\* The zero value of device.Device, read from a map without the key.
ZeroDevice == [ID |-> 0, Brand |-> ""]

\* Slot counts a scheduler asks for.
SlotRequests == 0..Cardinality(DeviceIDs)

\* *bool of a patch message: {} is nil, {b} points to b.
OptBool == {{}, {TRUE}, {FALSE}}
Deref(p) == CHOOSE b \in p : TRUE

\* cproto.Container
Container(cid, state, devs) == [ID |-> cid, State |-> state, Devices |-> devs]

\* sproto.ReleaseResources published for an allocation.
ReleaseResources(alloc) ==
    [AllocationID |-> alloc, Reason |-> "slot disabled", ForceKill |-> TRUE]

\* ------------------------------------------------------------ state
VARIABLES
    Devices,              \* map[device.Device]*cproto.ID
    slotStates,           \* map[device.ID]*slot
    containerState,       \* map[cproto.ID]*cproto.Container
    containerAllocation,  \* map[cproto.ID]model.AllocationID
    enabled,              \* agentState.enabled
    draining,             \* agentState.draining
    started,              \* the handler has passed AgentStarted to agentStarted
    persisted,            \* the snapshot row the last operation upserted, or NoWrite
    published,            \* bag of events the last operation published
    last,                 \* the last operation and the error it returned
    steps,                \* operations processed so far
    resourcePoolName,     \* agentState.resourcePoolName
    copy                  \* the agentState deepCopy returned to the scheduler, or NoCopy

vars == <<Devices, slotStates, containerState, containerAllocation, enabled,
          draining, started, persisted, published, last, steps, resourcePoolName,
          copy>>

\* The scheduler holds no copy of the agent.
NoCopy == [none |-> TRUE]

\* No row was written: the operation does not call persist.
NoWrite == [none |-> TRUE]

\* persist was called and the database returned an error.
WriteFailed == [failed |-> TRUE]

\* ------------------------------------------------------------ slotEnabled
slotEnabled(da, ae, ue, dr) ==
    [deviceAdded |-> da, agentEnabled |-> ae, userEnabled |-> ue, draining |-> dr]

\* slotEnabled.enabled
SlotIsEnabled(e) == e.agentEnabled /\ e.userEnabled

\* ------------------------------------------------------------ capacity
\* (mutant) every device of the view is counted as used
UsedSlotsOf_countsAll(devs) == Cardinality(DOMAIN devs)

\* numUsedSlots on a device view
UsedSlotsOf(devs) == Cardinality({d \in DOMAIN devs : devs[d] # Nil})

numUsedSlots == UsedSlotsOf(Devices)

\* numSlots with the disabled case tested before the draining case
numSlots_disabledFirst ==
    CASE ~enabled -> 0
      [] draining -> numUsedSlots
      [] OTHER -> Cardinality(DOMAIN Devices)

numSlots ==
    CASE draining -> numUsedSlots
      [] ~enabled -> 0
      [] OTHER -> Cardinality(DOMAIN Devices)

\* numEmptySlots without the draining / disabled case
numEmptySlots_noSwitch == numSlots - numUsedSlots

numEmptySlots ==
    IF draining \/ ~enabled THEN 0 ELSE numSlots - numUsedSlots

numUsedZeroSlots ==
    Cardinality({c \in DOMAIN containerState : Len(containerState[c].Devices) = 0})

\* numZeroSlots with the disabled case tested before the draining case
numZeroSlots_disabledFirst ==
    CASE ~enabled -> 0
      [] draining -> numUsedZeroSlots
      [] OTHER -> MaxZeroSlotContainers

numZeroSlots ==
    CASE draining -> numUsedZeroSlots
      [] ~enabled -> 0
      [] OTHER -> MaxZeroSlotContainers

numEmptyZeroSlots ==
    IF draining \/ ~enabled THEN 0 ELSE numZeroSlots - numUsedZeroSlots

\* idle that looks at the device slots only
idle_slotsOnly == numUsedSlots = 0

idle == numUsedZeroSlots = 0 /\ numUsedSlots = 0

\* ------------------------------------------------------------ helpers
\* a.containerAllocation[cid]: the zero value when the key is missing
AllocationOf(ca, cid) == IF cid \in DOMAIN ca THEN ca[cid] ELSE NoAllocation

\* m[k] = v on a Go map
MapSet(m, k, v) == [x \in DOMAIN m \cup {k} |-> IF x = k THEN v ELSE m[x]]

\* delete(m, k) on a Go map
MapDelete(m, k) == [x \in DOMAIN m \ {k} |-> m[x]]

EmptyMap == <<>>

\* The record `last` keeps of an operation: its name, the container it was
\* about and the error it returned ("" for none).
Op(name) == [op |-> name, cid |-> Nil, err |-> ""]

\* ------------------------------------------------------------ device view
\* The part of the agent state updateSlotDeviceView works on.
View(ss, devs, pub) == [slotStates |-> ss, Devices |-> devs, published |-> pub]

addDevice(devs, device, containerID) == MapSet(devs, device, containerID)

\* (mutant) the device is left in the view
removeDevice_keeps(devs, device) == devs

removeDevice(devs, device) == MapDelete(devs, device)

\* A disabled slot's device leaves the view only when it was added and the slot
\* is not draining.
\* (mutant) the device leaves the view whether or not the slot is draining
removesDevice_ignoringDrain(e) == e.deviceAdded

removesDevice(e) == ~e.draining /\ e.deviceAdded

\* A disabled slot's container is force-released unless the slot is draining.
\* (mutant) the container is released whether or not the slot is draining
releasesContainer_ignoringDrain(s) == s.containerID # Nil

releasesContainer(s) == ~s.enabled.draining /\ s.containerID # Nil

updateSlotDeviceView(v, ca, deviceID) ==
    IF deviceID \notin DOMAIN v.slotStates THEN v
    ELSE
        LET s == v.slotStates[deviceID] IN
        IF SlotIsEnabled(s.enabled) /\ ~s.enabled.deviceAdded THEN
            [v EXCEPT !.slotStates[deviceID].enabled.deviceAdded = TRUE,
                      !.Devices = addDevice(@, s.device, s.containerID)]
        ELSE IF ~SlotIsEnabled(s.enabled) THEN
            LET v1 == IF removesDevice(s.enabled)
                      THEN [v EXCEPT !.slotStates[deviceID].enabled.deviceAdded = FALSE,
                                     !.Devices = removeDevice(@, s.device)]
                      ELSE v
            IN  IF releasesContainer(s)
                THEN [v1 EXCEPT !.published =
                         @ (+) SetToBag({ReleaseResources(AllocationOf(ca, s.containerID))})]
                ELSE v1
        ELSE v

\* ------------------------------------------------------------ snapshot
slotData(s) ==
    [Device |-> s.device, UserEnabled |-> s.enabled.userEnabled,
     ContainerID |-> s.containerID]

snapshot(ss, cs, en, dr) ==
    [ResourcePoolName |-> resourcePoolName,
     UserEnabled |-> en, UserDraining |-> dr,
     MaxZeroSlotContainers |-> MaxZeroSlotContainers,
     Slots |-> {slotData(ss[i]) : i \in DOMAIN ss},
     Containers |-> DOMAIN cs]

\* persist: the upsert of the snapshot row; dbOK is whether the database took it.
persist(snap, dbOK) == IF dbOK THEN snap ELSE WriteFailed

\* ------------------------------------------------------------ operations
\* newAgentState, but for the resource pool name
newAgentState ==
    /\ Devices = EmptyMap
    /\ slotStates = EmptyMap
    /\ containerState = EmptyMap
    /\ containerAllocation = EmptyMap
    /\ enabled = TRUE
    /\ draining = FALSE
    /\ started = FALSE
    /\ persisted = NoWrite
    /\ published = EmptyBag
    /\ last = Op("newAgentState")
    /\ steps = 0
    /\ copy = NoCopy

\* The agent as newAgentState returns it: the resource pool name is the zero value.
Init == newAgentState /\ resourcePoolName = ""

\* The agent once its handler has recorded the resource pool it was configured in.
InitInPool == newAgentState /\ resourcePoolName \in PoolNames

\* The loop of agentStarted over msg.Devices[i..].
RECURSIVE agentStartedLoop(_, _, _)
\* (mutant) only the first reported device gets a slot
agentStartedLoop_firstOnly(v, devs, i) ==
    IF i > Len(devs) \/ i > 1 THEN v
    ELSE
        LET d == devs[i]
            s == [device |-> d, enabled |-> slotEnabled(FALSE, TRUE, TRUE, FALSE),
                  containerID |-> Nil]
            v1 == [v EXCEPT !.slotStates = MapSet(@, d.ID, s)]
        IN  agentStartedLoop(updateSlotDeviceView(v1, containerAllocation, d.ID), devs, i + 1)

agentStartedLoop(v, devs, i) ==
    IF i > Len(devs) THEN v
    ELSE
        LET d == devs[i]
            s == [device |-> d, enabled |-> slotEnabled(FALSE, TRUE, TRUE, FALSE),
                  containerID |-> Nil]
            v1 == [v EXCEPT !.slotStates = MapSet(@, d.ID, s)]
        IN  agentStartedLoop(updateSlotDeviceView(v1, containerAllocation, d.ID), devs, i + 1)

agentStarted(devs, dbOK) ==
    /\ ~started
    /\ LET v == agentStartedLoop(View(slotStates, Devices, EmptyBag), devs, 1) IN
        /\ slotStates' = v.slotStates
        /\ Devices' = v.Devices
        /\ published' = v.published
        /\ persisted' = persist(snapshot(v.slotStates, containerState, enabled, draining), dbOK)
    /\ started' = TRUE
    /\ last' = Op("agentStarted")
    /\ UNCHANGED <<containerState, containerAllocation, enabled, draining>>

\* (mutant) the scan takes any device of the view, occupied or not
FreeDevices_all(devs) == DOMAIN devs

FreeDevices(devs) == {d \in DOMAIN devs : devs[d] = Nil}

\* The slices the scan of allocateFreeDevices can end with: free devices in the
\* order the map yields them, as many as asked for or all there are.
scanFreeDevices(devs, slots) ==
    LET free == FreeDevices(devs)
        n == IF Cardinality(free) < slots THEN Cardinality(free) ELSE slots
    IN  InjSeqs(free, n)

\* (mutant) the scan is accepted as soon as it found one device
enoughDevices_any(devices, slots) == Len(devices) >= 1

\* len(devices) == slots
enoughDevices(devices, slots) == Len(devices) = slots

\* (mutant) the claiming loop skips the first device of the list
Claim_skipFirst(devs, list, cid) ==
    [d \in DOMAIN devs |-> IF d \in Range(Tail(list)) THEN cid ELSE devs[d]]

\* Devices with a.Devices[d] = &cid for every d of the list
Claim(devs, list, cid) == [d \in DOMAIN devs |-> IF d \in Range(list) THEN cid ELSE devs[d]]

allocateFreeDevices(slots, cid) ==
    LET cs1 == MapSet(containerState, cid, Container(cid, Unset, <<>>))
        req == [Op("allocateFreeDevices") EXCEPT !.cid = cid]
    IN
    /\ published' = EmptyBag
    /\ persisted' = NoWrite
    /\ UNCHANGED <<slotStates, containerAllocation, enabled, draining, started>>
    /\ IF slots = 0 THEN
            /\ containerState' = cs1
            /\ Devices' = Devices
            /\ last' = req
       ELSE \E devices \in scanFreeDevices(Devices, slots) :
            IF ~enoughDevices(devices, slots) THEN
                /\ containerState' = cs1
                /\ Devices' = Devices
                /\ last' = [req EXCEPT !.err = "not enough devices"]
            ELSE
                /\ Devices' = Claim(Devices, devices, cid)
                /\ containerState' = [cs1 EXCEPT ![cid].Devices = devices]
                /\ last' = req

\* (mutant) the loop clears every occupied device
DeallocateDevices_all(devs, id) == [d \in DOMAIN devs |-> Nil]

\* The loop of deallocateContainer over a.Devices
DeallocateDevices(devs, id) == [d \in DOMAIN devs |-> IF devs[d] = id THEN Nil ELSE devs[d]]

deallocateContainer(id) ==
    /\ containerState' = MapDelete(containerState, id)
    /\ Devices' = DeallocateDevices(Devices, id)
    /\ published' = EmptyBag
    /\ last' = [Op("deallocateContainer") EXCEPT !.cid = id]
    /\ persisted' = NoWrite
    /\ UNCHANGED <<slotStates, containerAllocation, enabled, draining, started>>

\* (mutant) enable leaves the draining flag as it is
enable_keepsDraining ==
    /\ enabled' = TRUE
    /\ draining' = draining
    /\ published' = EmptyBag
    /\ last' = Op("enable")
    /\ persisted' = NoWrite
    /\ UNCHANGED <<Devices, slotStates, containerState, containerAllocation, started>>

enable ==
    /\ enabled' = TRUE
    /\ draining' = FALSE
    /\ published' = EmptyBag
    /\ last' = Op("enable")
    /\ persisted' = NoWrite
    /\ UNCHANGED <<Devices, slotStates, containerState, containerAllocation, started>>

disable(drain) ==
    /\ draining' = drain
    /\ enabled' = FALSE
    /\ published' = EmptyBag
    /\ last' = Op("disable")
    /\ persisted' = NoWrite
    /\ UNCHANGED <<Devices, slotStates, containerState, containerAllocation, started>>

\* The loop of containerStateChanged over msg.Container.Devices[i..].
RECURSIVE containerStateChangedLoop(_, _, _)
\* (mutant) the loop stops at the first device without a slot
containerStateChangedLoop_abort(ss, c, i) ==
    IF i > Len(c.Devices) THEN ss
    ELSE
        LET id == c.Devices[i].ID IN
        IF id \notin DOMAIN ss THEN ss
        ELSE containerStateChangedLoop(
                [ss EXCEPT ![id].containerID = IF c.State = Terminated THEN Nil ELSE c.ID],
                c, i + 1)

containerStateChangedLoop(ss, c, i) ==
    IF i > Len(c.Devices) THEN ss
    ELSE
        LET id == c.Devices[i].ID IN
        IF id \notin DOMAIN ss THEN containerStateChangedLoop(ss, c, i + 1)
        ELSE containerStateChangedLoop(
                [ss EXCEPT ![id].containerID = IF c.State = Terminated THEN Nil ELSE c.ID],
                c, i + 1)

containerStateChanged(c, dbOK) ==
    LET ss == containerStateChangedLoop(slotStates, c, 1)
        cs == IF c.State = Terminated
              THEN MapDelete(containerState, c.ID)
              ELSE MapSet(containerState, c.ID, c)
    IN
    /\ slotStates' = ss
    /\ containerState' = cs
    /\ persisted' = persist(snapshot(ss, cs, enabled, draining), dbOK)
    /\ published' = EmptyBag
    /\ last' = [Op("containerStateChanged") EXCEPT !.cid = c.ID]
    /\ UNCHANGED <<Devices, containerAllocation, enabled, draining, started>>

\* The error of inner(deviceId) of startContainer on slots ss, "" when it succeeds.
\* (mutant) inner does not look at the slot's enablement
startContainerInnerErr_noEnabledCheck(ss, deviceId) ==
    IF deviceId \notin DOMAIN ss THEN "can't find slot"
    ELSE IF ss[deviceId].containerID # Nil THEN "container already allocated to slot"
    ELSE ""

startContainerInnerErr(ss, deviceId) ==
    IF deviceId \notin DOMAIN ss THEN "can't find slot"
    ELSE IF ~SlotIsEnabled(ss[deviceId].enabled)
        THEN "container allocated but slot is not enabled"
    ELSE IF ss[deviceId].containerID # Nil THEN "container already allocated to slot"
    ELSE ""

\* The loop of startContainer over Container.Devices[i..]: the slots and tracked
\* containers when it stops, and the error it stops with.
RECURSIVE startContainerLoop(_, _, _, _)
startContainerLoop(ss, cs, c, i) ==
    IF i > Len(c.Devices) THEN [slotStates |-> ss, containerState |-> cs, err |-> ""]
    ELSE
        LET id == c.Devices[i].ID
            e == startContainerInnerErr(ss, id)
        IN  IF e # "" THEN [slotStates |-> ss, containerState |-> cs, err |-> e]
            ELSE startContainerLoop([ss EXCEPT ![id].containerID = c.ID],
                                    MapSet(cs, c.ID, c), c, i + 1)

startContainer(c, allocationID, dbOK) ==
    LET r == startContainerLoop(slotStates, containerState, c, 1)
        req == [Op("startContainer") EXCEPT !.cid = c.ID]
    IN
    /\ slotStates' = r.slotStates
    /\ containerState' = r.containerState
    /\ published' = EmptyBag
    /\ UNCHANGED <<Devices, enabled, draining, started>>
    /\ IF r.err # "" THEN
            /\ last' = [req EXCEPT !.err = r.err]
            /\ persisted' = NoWrite
            /\ UNCHANGED containerAllocation
       ELSE
            /\ containerAllocation' = MapSet(containerAllocation, c.ID, allocationID)
            /\ persisted' = persist(snapshot(r.slotStates, r.containerState, enabled, draining), dbOK)
            /\ last' = req

\* patchSlotStateInner on the slot of deviceID
patchSlotStateInner(v, ca, en, dr, deviceID) ==
    LET s == v.slotStates[deviceID]
        e1 == IF en # {} THEN [s.enabled EXCEPT !.userEnabled = Deref(en)] ELSE s.enabled
        e2 == IF dr # {} THEN [e1 EXCEPT !.draining = Deref(dr)] ELSE e1
    IN  updateSlotDeviceView([v EXCEPT !.slotStates[deviceID].enabled = e2], ca, deviceID)

\* The loop of patchAllSlotsState over the slots not yet visited.
RECURSIVE patchAllSlotsLoop(_, _, _, _, _)
patchAllSlotsLoop(v, ca, en, dr, todo) ==
    IF todo = {} THEN v
    ELSE LET id == CHOOSE x \in todo : TRUE IN
         patchAllSlotsLoop(patchSlotStateInner(v, ca, en, dr, id), ca, en, dr, todo \ {id})

patchAllSlotsState(en, dr) ==
    LET v == patchAllSlotsLoop(View(slotStates, Devices, EmptyBag), containerAllocation,
                               en, dr, DOMAIN slotStates)
    IN
    /\ slotStates' = v.slotStates
    /\ Devices' = v.Devices
    /\ published' = v.published
    /\ last' = Op("patchAllSlotsState")
    /\ persisted' = NoWrite
    /\ UNCHANGED <<containerState, containerAllocation, enabled, draining, started>>

\* (mutant) no error is returned for a device ID without a slot
slotNotFound_silent(id) == ""

\* The error patchSlotState returns for a device ID without a slot.
slotNotFound(id) == "not found"

patchSlotState(id, en, dr) ==
    LET req == Op("patchSlotState") IN
    /\ persisted' = NoWrite
    /\ UNCHANGED <<containerState, containerAllocation, enabled, draining, started>>
    /\ IF id \notin DOMAIN slotStates THEN
            /\ last' = [req EXCEPT !.err = slotNotFound(id)]
            /\ published' = EmptyBag
            /\ UNCHANGED <<slotStates, Devices>>
       ELSE LET v == patchSlotStateInner(View(slotStates, Devices, EmptyBag),
                                         containerAllocation, en, dr, id)
            IN  /\ slotStates' = v.slotStates
                /\ Devices' = v.Devices
                /\ published' = v.published
                /\ last' = req

\* (mutant) clearing a slot in the second loop does not count as an update
clearUnlessRecoveredUpdated_noSlots(devs, ss1, cs, ca, recovered) ==
    \/ \E d \in DOMAIN devs : devs[d] # Nil /\ devs[d] \notin recovered
    \/ DOMAIN cs \ recovered # {}
    \/ DOMAIN ca \ recovered # {}

\* updated of clearUnlessRecovered: some loop cleared or deleted an entry, where
\* ss1 is the slots as the first loop left them.
clearUnlessRecoveredUpdated(devs, ss1, cs, ca, recovered) ==
    \/ \E d \in DOMAIN devs : devs[d] # Nil /\ devs[d] \notin recovered
    \/ \E i \in DOMAIN ss1 : ss1[i].containerID # Nil /\ ss1[i].containerID \notin recovered
    \/ DOMAIN cs \ recovered # {}
    \/ DOMAIN ca \ recovered # {}

clearUnlessRecovered(recovered, dbOK) ==
    LET lost(cid) == cid # Nil /\ cid \notin recovered
        devs == [d \in DOMAIN Devices |-> IF lost(Devices[d]) THEN Nil ELSE Devices[d]]
        \* first loop: the slot of every device of the view that lost its container
        ss1 == [i \in DOMAIN slotStates |->
                  IF \E d \in DOMAIN Devices : d.ID = i /\ lost(Devices[d])
                  THEN [slotStates[i] EXCEPT !.containerID = Nil] ELSE slotStates[i]]
        \* second loop: every slot whose own container is lost
        ss2 == [i \in DOMAIN ss1 |->
                  IF lost(ss1[i].containerID)
                  THEN [ss1[i] EXCEPT !.containerID = Nil] ELSE ss1[i]]
        cs == [c \in DOMAIN containerState \cap recovered |-> containerState[c]]
        ca == [c \in DOMAIN containerAllocation \cap recovered |-> containerAllocation[c]]
        updated == clearUnlessRecoveredUpdated(Devices, ss1, containerState,
                                               containerAllocation, recovered)
        req == Op("clearUnlessRecovered")
    IN
    /\ Devices' = devs
    /\ slotStates' = ss2
    /\ containerState' = cs
    /\ containerAllocation' = ca
    /\ published' = EmptyBag
    /\ UNCHANGED <<enabled, draining, started>>
    /\ IF updated THEN
            /\ persisted' = persist(snapshot(ss2, cs, enabled, draining), dbOK)
            /\ last' = [req EXCEPT !.err = IF dbOK THEN "" ELSE "persist"]
       ELSE /\ persisted' = NoWrite
            /\ last' = req

\* ------------------------------------------------------------ reconnect
\* theirDevices of checkAgentStartedDevicesMatch: the reported devices keyed by
\* ID, a later device replacing an earlier one with the same ID.
RECURSIVE theirDevicesLoop(_, _, _)
theirDevicesLoop(m, devs, i) ==
    IF i > Len(devs) THEN m
    ELSE theirDevicesLoop(MapSet(m, devs[i].ID, devs[i]), devs, i + 1)

\* m[k] on a map of devices: the zero device when the key is missing
DeviceAt(m, k) == IF k \in DOMAIN m THEN m[k] ELSE ZeroDevice

\* (mutant) only the device counts are compared
devicesMatchErr_countOnly(ourDevices, theirDevices) ==
    IF Cardinality(DOMAIN ourDevices) # Cardinality(DOMAIN theirDevices)
    THEN "device count has changed"
    ELSE ""

\* The error checkAgentStartedDevicesMatch returns, "" for nil.
devicesMatchErr(ourDevices, theirDevices) ==
    IF Cardinality(DOMAIN ourDevices) # Cardinality(DOMAIN theirDevices)
    THEN "device count has changed"
    ELSE IF ourDevices # theirDevices
    THEN IF \E k \in DOMAIN ourDevices : ourDevices[k] # DeviceAt(theirDevices, k)
         THEN "device properties have changed"
         ELSE "devices has changed"
    ELSE ""

checkAgentStartedDevicesMatch(devs) ==
    LET ourDevices == [i \in DOMAIN slotStates |-> slotStates[i].device]
        theirDevices == theirDevicesLoop(EmptyMap, devs, 1)
    IN
    /\ last' = [Op("checkAgentStartedDevicesMatch") EXCEPT
                    !.err = devicesMatchErr(ourDevices, theirDevices)]
    /\ published' = EmptyBag
    /\ persisted' = NoWrite
    /\ UNCHANGED <<Devices, slotStates, containerState, containerAllocation, enabled,
                   draining, started, resourcePoolName, copy>>

\* (mutant) a report that names the default pool is accepted by every agent
poolMatchErr_defaultAccepted(ours, theirs) ==
    IF ours # theirs /\ theirs # defaultResourcePoolName
    THEN "resource pool has changed"
    ELSE ""

\* The error checkAgentResourcePoolMatch returns, "" for nil.
poolMatchErr(ours, theirs) ==
    IF ours # theirs THEN "resource pool has changed" ELSE ""

checkAgentResourcePoolMatch(reported) ==
    /\ last' = [Op("checkAgentResourcePoolMatch") EXCEPT
                    !.err = poolMatchErr(resourcePoolName, reported)]
    /\ published' = EmptyBag
    /\ persisted' = NoWrite
    /\ UNCHANGED <<Devices, slotStates, containerState, containerAllocation, enabled,
                   draining, started, resourcePoolName, copy>>

\* ------------------------------------------------------------ scheduler copy
\* deepCopy: Devices and containerState are cloned, slotStates is the agent's own
\* map, shared with the copy; containerAllocation is not copied.
deepCopy ==
    /\ copy = NoCopy
    /\ copy' = [Devices |-> Devices,
                containerState |-> containerState,
                containerAllocation |-> EmptyMap,
                enabled |-> enabled,
                draining |-> draining,
                resourcePoolName |-> resourcePoolName,
                maxZeroSlotContainers |-> MaxZeroSlotContainers]
    /\ last' = Op("deepCopy")
    /\ published' = EmptyBag
    /\ persisted' = NoWrite
    /\ UNCHANGED <<Devices, slotStates, containerState, containerAllocation, enabled,
                   draining, started, resourcePoolName>>

\* What an operation on the copy leaves alone: the fields of the agent that are
\* not shared with the copy.
AgentOwnFields ==
    <<Devices, containerState, containerAllocation, enabled, draining, started,
      resourcePoolName>>

\* allocateFreeDevices with the copy as receiver
copyAllocateFreeDevices(slots, cid) ==
    LET cs1 == MapSet(copy.containerState, cid, Container(cid, Unset, <<>>))
        req == [Op("copy.allocateFreeDevices") EXCEPT !.cid = cid]
    IN
    /\ copy # NoCopy
    /\ published' = EmptyBag
    /\ persisted' = NoWrite
    /\ UNCHANGED <<slotStates, AgentOwnFields>>
    /\ IF slots = 0 THEN
            /\ copy' = [copy EXCEPT !.containerState = cs1]
            /\ last' = req
       ELSE \E devices \in scanFreeDevices(copy.Devices, slots) :
            IF ~enoughDevices(devices, slots) THEN
                /\ copy' = [copy EXCEPT !.containerState = cs1]
                /\ last' = [req EXCEPT !.err = "not enough devices"]
            ELSE
                /\ copy' = [copy EXCEPT
                                !.Devices = Claim(@, devices, cid),
                                !.containerState = [cs1 EXCEPT ![cid].Devices = devices]]
                /\ last' = req

\* deallocateContainer with the copy as receiver
copyDeallocateContainer(id) ==
    /\ copy # NoCopy
    /\ copy' = [copy EXCEPT !.containerState = MapDelete(@, id),
                            !.Devices = DeallocateDevices(@, id)]
    /\ published' = EmptyBag
    /\ last' = [Op("copy.deallocateContainer") EXCEPT !.cid = id]
    /\ persisted' = NoWrite
    /\ UNCHANGED <<slotStates, AgentOwnFields>>

\* patchSlotState with the copy as receiver
copyPatchSlotState(id, en, dr) ==
    LET req == Op("copy.patchSlotState") IN
    /\ copy # NoCopy
    /\ persisted' = NoWrite
    /\ UNCHANGED AgentOwnFields
    /\ IF id \notin DOMAIN slotStates THEN
            /\ last' = [req EXCEPT !.err = slotNotFound(id)]
            /\ published' = EmptyBag
            /\ UNCHANGED <<slotStates, copy>>
       ELSE LET v == patchSlotStateInner(View(slotStates, copy.Devices, EmptyBag),
                                         copy.containerAllocation, en, dr, id)
            IN  /\ slotStates' = v.slotStates
                /\ copy' = [copy EXCEPT !.Devices = v.Devices]
                /\ published' = v.published
                /\ last' = req

\* patchAllSlotsState with the copy as receiver
copyPatchAllSlotsState(en, dr) ==
    LET v == patchAllSlotsLoop(View(slotStates, copy.Devices, EmptyBag),
                               copy.containerAllocation, en, dr, DOMAIN slotStates)
    IN
    /\ copy # NoCopy
    /\ slotStates' = v.slotStates
    /\ copy' = [copy EXCEPT !.Devices = v.Devices]
    /\ published' = v.published
    /\ last' = Op("copy.patchAllSlotsState")
    /\ persisted' = NoWrite
    /\ UNCHANGED AgentOwnFields

\* containerStateChanged with the copy as receiver
copyContainerStateChanged(c, dbOK) ==
    LET ss == containerStateChangedLoop(slotStates, c, 1)
        cs == IF c.State = Terminated
              THEN MapDelete(copy.containerState, c.ID)
              ELSE MapSet(copy.containerState, c.ID, c)
    IN
    /\ copy # NoCopy
    /\ slotStates' = ss
    /\ copy' = [copy EXCEPT !.containerState = cs]
    /\ persisted' = persist(snapshot(ss, cs, copy.enabled, copy.draining), dbOK)
    /\ published' = EmptyBag
    /\ last' = [Op("copy.containerStateChanged") EXCEPT !.cid = c.ID]
    /\ UNCHANGED AgentOwnFields

\* newAgentStateFromSnapshot: the agent state rebuilt from the snapshot row as;
\* table is the container table, from which the rows of as.Containers are read.
newAgentStateFromSnapshot(as, table) ==
    LET sdOf(i) == CHOOSE sd \in as.Slots : sd.Device.ID = i IN
    [slotStates |->
        [i \in {sd.Device.ID : sd \in as.Slots} |->
            [device |-> sdOf(i).Device,
             containerID |-> sdOf(i).ContainerID,
             enabled |-> slotEnabled(TRUE, as.UserEnabled, as.UserEnabled, as.UserDraining)]],
     Devices |->
        [d \in {sd.Device : sd \in as.Slots} |-> sdOf(d.ID).ContainerID],
     containerState |-> [c \in as.Containers \cap DOMAIN table |-> table[c]],
     containerAllocation |-> EmptyMap,
     enabled |-> as.UserEnabled,
     draining |-> as.UserDraining,
     maxZeroSlotContainers |-> as.MaxZeroSlotContainers,
     resourcePoolName |-> as.ResourcePoolName]

\* ------------------------------------------------------------ specification
ContainerMessages ==
    {Container(cid, st, devs) : cid \in ContainerIDs, st \in ReportedStates, devs \in DeviceLists}

StartMessages ==
    {Container(cid, Assigned, devs) : cid \in ContainerIDs, devs \in DeviceLists}

\* One more operation is processed, up to MaxSteps of them.
Tick == steps < MaxSteps /\ steps' = steps + 1

\* One more operation on the agent itself: the scheduler's copy and the pool
\* name are not its to change.
OnAgent == Tick /\ UNCHANGED <<resourcePoolName, copy>>

Next ==
    \/ \E devs \in Inventories, dbOK \in BOOLEAN : OnAgent /\ agentStarted(devs, dbOK)
    \/ \E slots \in SlotRequests, cid \in ContainerIDs : OnAgent /\ allocateFreeDevices(slots, cid)
    \/ \E cid \in ContainerIDs : OnAgent /\ deallocateContainer(cid)
    \/ OnAgent /\ enable
    \/ \E drain \in BOOLEAN : OnAgent /\ disable(drain)
    \/ \E c \in ContainerMessages, dbOK \in BOOLEAN : OnAgent /\ containerStateChanged(c, dbOK)
    \/ \E c \in StartMessages, dbOK \in BOOLEAN :
            OnAgent /\ startContainer(c, AllocationFor[c.ID], dbOK)
    \/ \E id \in DeviceIDs, en \in OptBool, dr \in OptBool : OnAgent /\ patchSlotState(id, en, dr)
    \/ \E en \in OptBool, dr \in OptBool : OnAgent /\ patchAllSlotsState(en, dr)
    \/ \E recovered \in SUBSET ContainerIDs, dbOK \in BOOLEAN :
            OnAgent /\ clearUnlessRecovered(recovered, dbOK)

Spec == Init /\ [][Next]_vars

\* The agent together with the reconnect checks of its handler and with the
\* scheduler, which takes a deep copy and works on it.
HandlerNext ==
    \/ Next
    \/ \E devs \in DeviceReports : Tick /\ checkAgentStartedDevicesMatch(devs)
    \/ \E reported \in PoolNames : Tick /\ checkAgentResourcePoolMatch(reported)
    \/ Tick /\ deepCopy
    \/ \E slots \in SlotRequests, cid \in ContainerIDs :
            Tick /\ copyAllocateFreeDevices(slots, cid)
    \/ \E cid \in ContainerIDs : Tick /\ copyDeallocateContainer(cid)
    \/ \E id \in DeviceIDs, en \in OptBool, dr \in OptBool :
            Tick /\ copyPatchSlotState(id, en, dr)
    \/ \E en \in OptBool, dr \in OptBool : Tick /\ copyPatchAllSlotsState(en, dr)
    \/ \E c \in ContainerMessages, dbOK \in BOOLEAN :
            Tick /\ copyContainerStateChanged(c, dbOK)

HandlerSpec == InitInPool /\ [][HandlerNext]_vars

\* The master restarts after an operation upserted the agent's snapshot: the
\* agent state is rebuilt from that row. rows are the tracked containers whose
\* row the container table holds, each with the record the agent last saw.
restart(rows) ==
    /\ persisted \notin {NoWrite, WriteFailed}
    /\ rows \subseteq DOMAIN containerState
    /\ LET r == newAgentStateFromSnapshot(persisted, [c \in rows |-> containerState[c]]) IN
        /\ slotStates' = r.slotStates
        /\ Devices' = r.Devices
        /\ containerState' = r.containerState
        /\ containerAllocation' = r.containerAllocation
        /\ enabled' = r.enabled
        /\ draining' = r.draining
        /\ resourcePoolName' = r.resourcePoolName
    /\ copy' = NoCopy
    /\ published' = EmptyBag
    /\ persisted' = NoWrite
    /\ last' = Op("newAgentStateFromSnapshot")
    /\ UNCHANGED started

\* The agent with restarts of the master.
RestartNext ==
    \/ Next
    \/ \E rows \in SUBSET ContainerIDs : Tick /\ restart(rows)

RestartSpec == Init /\ [][RestartNext]_vars

\* The machines of the four-device scenario: any four of five devices, reported
\* in any order.
ScenarioDevices == {Device(i) : i \in 0..4}
FourDeviceReports == InjSeqs(ScenarioDevices, 4)

\* The scenario: an agent reports four devices, three are allocated to c1, c1 is
\* deallocated, the agent is disabled without draining.
ScenarioNext ==
    \/ \E devs \in FourDeviceReports, dbOK \in BOOLEAN :
            steps = 0 /\ OnAgent /\ agentStarted(devs, dbOK)
    \/ steps = 1 /\ OnAgent /\ allocateFreeDevices(3, "c1")
    \/ steps = 2 /\ OnAgent /\ deallocateContainer("c1")
    \/ steps = 3 /\ OnAgent /\ disable(FALSE)

ScenarioSpec == Init /\ [][ScenarioNext]_vars

\* ------------------------------------------------------------ claims
\* The devices of the view with no occupant.
FreeInView == {d \in DOMAIN Devices : Devices[d] = Nil}

\* allocateFreeDevices bound device d to container c: c holds d in the view and
\* c's record is the one allocateFreeDevices wrote.
AllocatedTo(d, c) ==
    /\ d \in DOMAIN Devices /\ Devices[d] = c
    /\ c \in DOMAIN containerState
    /\ containerState[c].State = Unset
    /\ d \in Range(containerState[c].Devices)

\* startContainer bound device d to container c: c occupies d's slot, c's record
\* is the one of the start message and c's allocation is recorded.
StartedOn(d, c) ==
    /\ d.ID \in DOMAIN slotStates /\ slotStates[d.ID].containerID = c
    /\ c \in DOMAIN containerAllocation
    /\ c \in DOMAIN containerState
    /\ containerState[c].State = Assigned
    /\ d \in Range(containerState[c].Devices)

\* C1: no device is claimed by two different containers, one through
\* allocateFreeDevices and the other through startContainer, whichever came first.
C1_NoDoubleClaim ==
    \A d \in AllDevices : \A c1, c2 \in ContainerIDs :
        AllocatedTo(d, c1) /\ StartedOn(d, c2) => c1 = c2

\* C2: allocateFreeDevices(k, cid) with k >= 1 and fewer than k free devices in
\* the view returns an error, leaves every occupant of the view as it was and
\* leaves the record of cid it registered in the containers map.
C2_FailedAllocateClaimsNothing ==
    [][last'.op = "allocateFreeDevices" =>
       \A k \in SlotRequests \ {0}, cid \in ContainerIDs :
        (allocateFreeDevices(k, cid) /\ Cardinality(FreeInView) < k)
        => /\ last'.err # ""
           /\ Devices' = Devices
           /\ cid \in DOMAIN containerState'
           /\ containerState'[cid] = Container(cid, Unset, <<>>)]_vars

\* C2 witness: a request failed although a free device was in the view.
C2_Witness ==
    /\ last.op = "allocateFreeDevices"
    /\ last.err = "not enough devices"
    /\ last.cid \in DOMAIN containerState
    /\ FreeInView # {}

\* C3: on an enabled, non-draining agent with exactly k >= 1 free devices in the
\* view, allocateFreeDevices(k, cid) succeeds, hands out k distinct devices that
\* were free, makes cid the occupant of exactly those, records them on cid's
\* record and leaves numEmptySlots() = 0.
C3_AllocateAllFree ==
    [][last'.op = "allocateFreeDevices" =>
       \A k \in SlotRequests \ {0}, cid \in ContainerIDs :
        (allocateFreeDevices(k, cid) /\ enabled /\ ~draining /\ Cardinality(FreeInView) = k)
        => /\ last'.err = ""
           /\ cid \in DOMAIN containerState'
           /\ LET got == containerState'[cid].Devices IN
                /\ Len(got) = k
                /\ Cardinality(Range(got)) = k
                /\ Range(got) \subseteq FreeInView
                /\ DOMAIN Devices' = DOMAIN Devices
                /\ \A d \in DOMAIN Devices :
                     Devices'[d] = IF d \in Range(got) THEN cid ELSE Devices[d]
           /\ numEmptySlots' = 0]_vars

\* C3 witness: both devices of the view went to one container and none is empty.
C3_Witness ==
    /\ last.op = "allocateFreeDevices" /\ last.err = ""
    /\ enabled /\ ~draining
    /\ last.cid \in DOMAIN containerState
    /\ Len(containerState[last.cid].Devices) = 2
    /\ \A d \in Range(containerState[last.cid].Devices) : Devices[d] = last.cid
    /\ numEmptySlots = 0

\* C4: deallocateContainer(cid) removes cid's record, clears the occupant of
\* exactly the devices of the view cid occupied and leaves every other occupant
\* and record as it was; for a cid that has no record and occupies no device it
\* changes nothing; a second call right after changes nothing more.
C4_Deallocate ==
    [][last'.op = "deallocateContainer" =>
       \A cid \in ContainerIDs :
        deallocateContainer(cid)
        => /\ DOMAIN containerState' = DOMAIN containerState \ {cid}
           /\ \A c \in DOMAIN containerState' : containerState'[c] = containerState[c]
           /\ DOMAIN Devices' = DOMAIN Devices
           /\ \A d \in DOMAIN Devices :
                Devices'[d] = IF Devices[d] = cid THEN Nil ELSE Devices[d]
           /\ slotStates' = slotStates
           /\ containerAllocation' = containerAllocation
           /\ (cid \notin DOMAIN containerState /\ (\A d \in DOMAIN Devices : Devices[d] # cid)
                => Devices' = Devices /\ containerState' = containerState)
           /\ DeallocateDevices(Devices', cid) = Devices'
           /\ MapDelete(containerState', cid) = containerState']_vars

\* C4 witness: a container was deallocated, a device is free and another
\* container still holds its device.
C4_Witness ==
    /\ last.op = "deallocateContainer"
    /\ last.cid \notin DOMAIN containerState
    /\ \E d \in DOMAIN Devices : Devices[d] = Nil
    /\ \E d \in DOMAIN Devices : Devices[d] \notin {Nil, last.cid}

\* The slots a patch leaves non-draining whose occupant's allocation is alloc.
EvictedFor(alloc) ==
    {i \in DOMAIN slotStates :
        /\ slotStates[i].containerID # Nil
        /\ ~slotStates'[i].enabled.draining
        /\ AllocationOf(containerAllocation, slotStates[i].containerID) = alloc}

\* What C5 asks of a patch of the one slot id that sets userEnabled to false.
DisableReleases(id) ==
    IF slotStates'[id].enabled.draining
    THEN published' = EmptyBag
    ELSE published' = SetToBag({
            [AllocationID |-> AllocationOf(containerAllocation, slotStates[id].containerID),
             Reason |-> "slot disabled", ForceKill |-> TRUE]})

\* What C5 asks of a patch of all slots that sets userEnabled to false: one
\* event for every occupied slot left non-draining, addressed to its allocation.
DisableAllReleases ==
    /\ \A e \in BagToSet(published') : e.Reason = "slot disabled" /\ e.ForceKill = TRUE
    /\ \A alloc \in {AllocationFor[c] : c \in ContainerIDs} \cup {NoAllocation} :
        CopiesIn([AllocationID |-> alloc, Reason |-> "slot disabled", ForceKill |-> TRUE],
                 published') = Cardinality(EvictedFor(alloc))

\* C5: a patch that disables a slot with an occupant and leaves it non-draining
\* publishes exactly one force-release (reason "slot disabled", forceKill true),
\* addressed to the allocation of the occupant; a patch that disables with
\* drain = true publishes none.
C5_DisablePublishesOnce ==
    [][/\ last'.op = "patchSlotState" =>
            \A id \in DOMAIN slotStates, dr \in OptBool :
                /\ slotStates[id].containerID # Nil
                    => DisableReleases(id) \/ ~patchSlotState(id, {FALSE}, dr)
                /\ published' = EmptyBag \/ ~patchSlotState(id, {FALSE}, {TRUE})
       /\ last'.op = "patchAllSlotsState" =>
            /\ \A dr \in OptBool :
                DisableAllReleases \/ ~patchAllSlotsState({FALSE}, dr)
            /\ published' = EmptyBag \/ ~patchAllSlotsState({FALSE}, {TRUE})
      ]_vars

\* C5 witness: a patch disabled an occupied slot without draining and one
\* force-release for the occupant's allocation went out.
C5_Witness ==
    /\ last.op = "patchSlotState" /\ last.err = ""
    /\ BagCardinality(published) = 1
    /\ \E i \in DOMAIN slotStates :
        /\ slotStates[i].containerID # Nil
        /\ ~slotStates[i].enabled.userEnabled
        /\ ~slotStates[i].enabled.draining
        /\ BagIn(ReleaseResources(AllocationFor[slotStates[i].containerID]), published)

\* A slot that is disabled by its user and draining.
DrainingSlot(ss, i) ==
    i \in DOMAIN ss /\ ss[i].enabled.draining /\ ~ss[i].enabled.userEnabled

\* C6: while a slot stays disabled and draining, no allocateFreeDevices and no
\* startContainer call binds a new container to its device.
C6_DrainingBlocksAllocation ==
    [][last'.op \in {"allocateFreeDevices", "startContainer"} =>
       /\ \A k \in SlotRequests, cid \in ContainerIDs :
            allocateFreeDevices(k, cid)
            => \A d \in DOMAIN Devices :
                 DrainingSlot(slotStates, d.ID) /\ DrainingSlot(slotStates', d.ID)
                 => Devices'[d] = Devices[d]
       /\ \A c \in StartMessages, dbOK \in BOOLEAN :
            startContainer(c, AllocationFor[c.ID], dbOK)
            => \A i \in DOMAIN slotStates :
                 DrainingSlot(slotStates, i) /\ DrainingSlot(slotStates', i)
                 => slotStates'[i].containerID = slotStates[i].containerID
      ]_vars

\* What C7 asks of the slot of device ID i across a patch that leaves it draining.
DrainKeeps(i) ==
    slotStates'[i].enabled.draining
    => /\ slotStates'[i].containerID = slotStates[i].containerID
       /\ slotStates'[i].device = slotStates[i].device
       /\ slotStates[i].device \in DOMAIN Devices
            => /\ slotStates[i].device \in DOMAIN Devices'
               /\ Devices'[slotStates[i].device] = Devices[slotStates[i].device]

\* C7: a patch that leaves a slot draining keeps the slot's device in the view
\* with its occupant unchanged and keeps the slot's cached occupant unchanged,
\* however many patches follow while the slot is draining.
C7_DrainKeepsDeviceAndOccupant ==
    [][/\ last'.op = "patchSlotState" =>
            \A id \in DOMAIN slotStates :
                DrainKeeps(id)
                \/ ~(\E en \in OptBool, dr \in OptBool : patchSlotState(id, en, dr))
       /\ last'.op = "patchAllSlotsState" =>
            \/ \A i \in DOMAIN slotStates : DrainKeeps(i)
            \/ ~(\E en \in OptBool, dr \in OptBool : patchAllSlotsState(en, dr))
      ]_vars

\* C7 witness: a patch left an occupied, disabled slot draining and its device
\* is still in the view.
C7_Witness ==
    /\ last.op = "patchSlotState" /\ last.err = ""
    /\ published = EmptyBag
    /\ \E i \in DOMAIN slotStates :
        /\ DrainingSlot(slotStates, i)
        /\ slotStates[i].containerID # Nil
        /\ slotStates[i].device \in DOMAIN Devices

\* C8: numSlots() is 0 on a disabled agent, numUsedSlots() on a draining agent
\* and the size of the device view otherwise.
C8_NumSlots ==
    /\ (~enabled /\ ~draining) => numSlots = 0
    /\ draining => numSlots = Cardinality({d \in DOMAIN Devices : Devices[d] # Nil})
    /\ (enabled /\ ~draining) => numSlots = Cardinality(DOMAIN Devices)

\* C8 witness: a draining agent with one used device out of two in the view.
C8_Witness ==
    /\ last.op = "disable"
    /\ draining /\ ~enabled
    /\ Cardinality(DOMAIN Devices) = 2
    /\ Cardinality({d \in DOMAIN Devices : Devices[d] # Nil}) = 1
    /\ numSlots = 1

\* C9: numEmptySlots() is 0 on a draining or disabled agent and otherwise
\* numSlots() - numUsedSlots(), which is never negative.
C9_NumEmptySlots ==
    /\ (draining \/ ~enabled) => numEmptySlots = 0
    /\ (~draining /\ enabled)
        => /\ numEmptySlots = numSlots - numUsedSlots
           /\ numEmptySlots >= 0

\* C9 witness: a disabled agent whose view holds a used and a free device.
C9_Witness ==
    /\ last.op = "disable"
    /\ ~enabled /\ ~draining
    /\ \E d \in DOMAIN Devices : Devices[d] = Nil
    /\ \E d \in DOMAIN Devices : Devices[d] # Nil
    /\ numEmptySlots = 0

\* C10: idle() holds exactly when no device of the view has an occupant and no
\* tracked container has an empty device list, whatever the slots' enablement.
C10_Idle ==
    idle <=> /\ \A d \in DOMAIN Devices : Devices[d] = Nil
             /\ \A c \in DOMAIN containerState : Len(containerState[c].Devices) # 0

\* C10 witness: no device is occupied, one slot is draining and one disabled,
\* and a zero-slot container keeps the agent from being idle.
C10_Witness ==
    /\ ~idle
    /\ \A d \in DOMAIN Devices : Devices[d] = Nil
    /\ \E c \in DOMAIN containerState : Len(containerState[c].Devices) = 0
    /\ \E i, j \in DOMAIN slotStates :
        /\ DrainingSlot(slotStates, i)
        /\ ~slotStates[j].enabled.userEnabled /\ ~slotStates[j].enabled.draining

\* The tracked containers whose record lists no occupied device.
ZeroSlotContainers == {c \in DOMAIN containerState : containerState[c].Devices = <<>>}

\* C11: numZeroSlots() is numUsedZeroSlots() on a draining agent, 0 on a disabled
\* one and maxZeroSlotContainers otherwise; numEmptyZeroSlots() is 0 on a
\* draining or disabled agent and numZeroSlots() - numUsedZeroSlots() otherwise;
\* numUsedZeroSlots() is the number of tracked containers with no occupied device.
C11_ZeroSlotCapacity ==
    /\ numUsedZeroSlots = Cardinality(ZeroSlotContainers)
    /\ draining => numZeroSlots = Cardinality(ZeroSlotContainers)
    /\ (~draining /\ ~enabled) => numZeroSlots = 0
    /\ (~draining /\ enabled) => numZeroSlots = MaxZeroSlotContainers
    /\ (draining \/ ~enabled) => numEmptyZeroSlots = 0
    /\ (~draining /\ enabled)
        => numEmptyZeroSlots = MaxZeroSlotContainers - Cardinality(ZeroSlotContainers)

\* C11 witness: a draining agent tracks two zero-slot containers, so its
\* zero-slot total is neither 0 nor the configured maximum.
C11_Witness ==
    /\ last.op = "disable"
    /\ draining /\ ~enabled
    /\ Cardinality(ZeroSlotContainers) = 2
    /\ numZeroSlots = 2
    /\ numZeroSlots # MaxZeroSlotContainers
    /\ numEmptyZeroSlots = 0

\* C12: a startContainer that returns an error leaves every slot's cached
\* occupant, every container record and every container-to-allocation entry as
\* it was before the call, also for the devices of the request that come before
\* the offending one.
C12_FailedStartChangesNothing ==
    [][(last'.op = "startContainer" /\ last'.err # "")
        => /\ \A i \in DOMAIN slotStates :
                slotStates'[i].containerID = slotStates[i].containerID
           /\ containerState' = containerState
           /\ containerAllocation' = containerAllocation]_vars

\* C13: patchSlotState with a device ID that has no slot returns an error and
\* leaves every slot (its enablement flags included), the device view and the
\* containers map as they were, and publishes no force-release.
C13_PatchUnknownSlot ==
    [][last'.op = "patchSlotState" =>
        \A id \in DeviceIDs \ DOMAIN slotStates :
            \/ /\ last'.err # ""
               /\ slotStates' = slotStates
               /\ Devices' = Devices
               /\ containerState' = containerState
               /\ containerAllocation' = containerAllocation
               /\ published' = EmptyBag
            \/ ~(\E en \in OptBool, dr \in OptBool : patchSlotState(id, en, dr))]_vars

\* C13 witness: a patch named a device without a slot on an agent that has an
\* occupied slot, and was refused.
C13_Witness ==
    /\ last.op = "patchSlotState" /\ last.err # ""
    /\ DOMAIN slotStates # {}
    /\ \E i \in DOMAIN slotStates : slotStates[i].containerID # Nil
    /\ published = EmptyBag

\* What C14 asks of a step whose snapshot write failed: the in-memory effect of
\* the operation took place all the same.
CompletedInMemory ==
    /\ last'.op = "agentStarted" =>
        \A devs \in Inventories :
            \/ \A i \in 1..Len(devs) :
                    /\ devs[i].ID \in DOMAIN slotStates'
                    /\ devs[i] \in DOMAIN Devices'
            \/ ~agentStarted(devs, FALSE)
    /\ last'.op = "containerStateChanged" =>
        \A c \in ContainerMessages :
            \/ /\ (c.ID \in DOMAIN containerState') = (c.State # Terminated)
               /\ c.State # Terminated => containerState'[c.ID] = c
               /\ slotStates' = containerStateChangedLoop(slotStates, c, 1)
            \/ ~containerStateChanged(c, FALSE)
    /\ last'.op = "startContainer" =>
        \A c \in StartMessages :
            (last'.cid = c.ID /\ startContainer(c, AllocationFor[c.ID], FALSE))
            => /\ AllocationOf(containerAllocation', c.ID) = AllocationFor[c.ID]
               /\ \A i \in 1..Len(c.Devices) : slotStates'[c.Devices[i].ID].containerID = c.ID
               /\ Len(c.Devices) > 0 => containerState'[c.ID] = c
    /\ last'.op = "clearUnlessRecovered" =>
        \A recovered \in SUBSET ContainerIDs :
            \/ /\ DOMAIN containerState' = DOMAIN containerState \cap recovered
               /\ DOMAIN containerAllocation' = DOMAIN containerAllocation \cap recovered
               /\ \A d \in DOMAIN Devices' : Devices'[d] \in recovered \cup {Nil}
               /\ \A i \in DOMAIN slotStates' : slotStates'[i].containerID \in recovered \cup {Nil}
            \/ ~clearUnlessRecovered(recovered, FALSE)

\* C14: an operation whose snapshot write fails (agentStarted,
\* containerStateChanged, startContainer, clearUnlessRecovered) returns no error
\* and its in-memory effect is the one it has when the write succeeds.
C14_PersistErrorsNotPropagated ==
    [][persisted' = WriteFailed => (last'.err = "" /\ CompletedInMemory)]_vars

\* The agent rebuilt from the snapshot of the current state, with a container
\* table that holds the row of every tracked container.
Rebuilt ==
    newAgentStateFromSnapshot(snapshot(slotStates, containerState, enabled, draining),
                              containerState)

\* C15: the agent rebuilt from snapshot() has the same slots with the same four
\* enablement flags, the same device view (devices and occupants) and the same
\* set of tracked container IDs as the state the snapshot was taken of.
C15_SnapshotRoundTrip ==
    /\ DOMAIN Rebuilt.slotStates = DOMAIN slotStates
    /\ \A i \in DOMAIN slotStates : Rebuilt.slotStates[i].enabled = slotStates[i].enabled
    /\ Rebuilt.Devices = Devices
    /\ DOMAIN Rebuilt.containerState = DOMAIN containerState

\* What C16 asks of a step of clearUnlessRecovered(R).
Reconciled(R) ==
    /\ \A d \in DOMAIN Devices' : Devices'[d] \in R \cup {Nil}
    /\ \A i \in DOMAIN slotStates' : slotStates'[i].containerID \in R \cup {Nil}
    /\ DOMAIN containerState' \subseteq R
    /\ DOMAIN containerAllocation' \subseteq R
    /\ \A d \in DOMAIN Devices :
            Devices[d] \in R => (d \in DOMAIN Devices' /\ Devices'[d] = Devices[d])
    /\ \A i \in DOMAIN slotStates :
            slotStates[i].containerID \in R
            => (i \in DOMAIN slotStates'
                /\ slotStates'[i].containerID = slotStates[i].containerID)
    /\ \A c \in DOMAIN containerState \cap R :
            c \in DOMAIN containerState' /\ containerState'[c] = containerState[c]
    /\ \A c \in DOMAIN containerAllocation \cap R :
            c \in DOMAIN containerAllocation' /\ containerAllocation'[c] = containerAllocation[c]

\* C16: after clearUnlessRecovered(R) no device occupant, slot occupant, tracked
\* container or container-to-allocation entry refers to a container outside R,
\* and every one that referred to a container in R is unchanged.
C16_ReconcileAfterRestart ==
    [][last'.op = "clearUnlessRecovered" =>
        \A R \in SUBSET ContainerIDs :
            \/ Reconciled(R)
            \/ ~(\E dbOK \in BOOLEAN : clearUnlessRecovered(R, dbOK))]_vars

\* The reported devices keyed by device ID: of two reports of one ID the later.
KeyedByID(devs) ==
    {devs[i] : i \in {j \in DOMAIN devs :
                        \A k \in DOMAIN devs : k > j => devs[k].ID # devs[j].ID}}

\* A report that names no device ID twice.
DistinctIDs(devs) == \A j, k \in DOMAIN devs : devs[j].ID = devs[k].ID => j = k

\* The devices of the known slots.
SlotDevices == {slotStates[i].device : i \in DOMAIN slotStates}

\* The in-memory state of the agent and of the scheduler's copy.
InMemory ==
    <<Devices, slotStates, containerState, containerAllocation, enabled, draining,
      resourcePoolName, copy>>

\* C17: checkAgentStartedDevicesMatch returns nil exactly when the reported
\* devices, keyed by device ID, are the devices of the known slots (same IDs,
\* same properties); a report of the same devices in another order gets the same
\* answer; it returns an error when the counts or any device differ; either way
\* it changes no state.
C17_DevicesMatch ==
    [][last'.op = "checkAgentStartedDevicesMatch" =>
        /\ UNCHANGED InMemory
        /\ published' = EmptyBag
        /\ persisted' = NoWrite
        /\ \A devs \in DeviceReports :
            checkAgentStartedDevicesMatch(devs)
            => /\ (last'.err = "") <=> (KeyedByID(devs) = SlotDevices)
               /\ Cardinality(KeyedByID(devs)) # Cardinality(SlotDevices) => last'.err # ""
               /\ \A other \in DeviceReports :
                    (DistinctIDs(devs) /\ Range(other) = Range(devs))
                    => last'.err = devicesMatchErr(
                            [i \in DOMAIN slotStates |-> slotStates[i].device],
                            theirDevicesLoop(EmptyMap, other, 1))]_vars

\* C17 witness: a report was compared with two known slots, one of them
\* occupied, and matched.
C17_Witness ==
    /\ last.op = "checkAgentStartedDevicesMatch" /\ last.err = ""
    /\ Cardinality(DOMAIN slotStates) = 2
    /\ \E i \in DOMAIN slotStates : slotStates[i].containerID # Nil

\* C18: checkAgentResourcePoolMatch returns an error exactly when the reported
\* pool name differs from the recorded resourcePoolName, and changes neither the
\* recorded name nor anything else.
C18_ResourcePoolMatch ==
    [][last'.op = "checkAgentResourcePoolMatch" =>
        \A reported \in PoolNames :
            \/ /\ (last'.err # "") <=> (reported # resourcePoolName)
               /\ resourcePoolName' = resourcePoolName
               /\ UNCHANGED InMemory
               /\ published' = EmptyBag
               /\ persisted' = NoWrite
            \/ ~checkAgentResourcePoolMatch(reported)]_vars

\* C18 witness: an agent recorded in a pool of its own, with slots, was reported
\* in another pool and the report was refused.
C18_Witness ==
    /\ last.op = "checkAgentResourcePoolMatch" /\ last.err # ""
    /\ resourcePoolName # defaultResourcePoolName
    /\ DOMAIN slotStates # {}

\* The operations C19 names, with the agent and with the copy as receiver.
OpsOnAgent ==
    {"allocateFreeDevices", "deallocateContainer", "patchSlotState",
     "patchAllSlotsState", "containerStateChanged"}

OpsOnCopy ==
    {"copy.allocateFreeDevices", "copy.deallocateContainer", "copy.patchSlotState",
     "copy.patchAllSlotsState", "copy.containerStateChanged"}

\* C19: once a deep copy exists, an operation on the copy changes neither the
\* slots, nor the device view, nor the containers of the agent, and an operation
\* on the agent changes none of these of the copy.
C19_DeepCopyValueSemantics ==
    [][(copy # NoCopy /\ copy' # NoCopy) =>
        /\ last'.op \in OpsOnCopy
            => /\ slotStates' = slotStates
               /\ Devices' = Devices
               /\ containerState' = containerState
        /\ last'.op \in OpsOnAgent
            => /\ slotStates' = slotStates
               /\ copy'.Devices = copy.Devices
               /\ copy'.containerState = copy.containerState]_vars

\* The snapshot() of the agent's current state.
CurrentSnapshot == snapshot(slotStates, containerState, enabled, draining)

\* The operations C20 names.
StateChangingOps ==
    {"agentStarted", "allocateFreeDevices", "deallocateContainer", "enable", "disable",
     "patchSlotState", "patchAllSlotsState", "containerStateChanged", "startContainer"}

\* C20: each of agentStarted, allocateFreeDevices, deallocateContainer, enable,
\* disable, patchSlotState, patchAllSlotsState, containerStateChanged and
\* startContainer that changes what snapshot() returns, with a working store,
\* upserts the snapshot of the state it leaves, so that the stored row equals
\* snapshot() of the in-memory state.
C20_SnapshotWrittenAfterEveryChange ==
    [][(/\ last'.op \in StateChangingOps
        /\ persisted' # WriteFailed
        /\ CurrentSnapshot' # CurrentSnapshot)
       => persisted' = CurrentSnapshot']_vars

\* C21: on a fresh agent, after agentStarted with four devices and
\* allocateFreeDevices(3, c1), numUsedSlots() is 3 and numEmptySlots() is 1;
\* after deallocateContainer(c1) numEmptySlots() is 4; after disable(false)
\* numSlots() is 0.
C21_FourDeviceScenario ==
    /\ steps = 2 => (last.err = "" /\ numUsedSlots = 3 /\ numEmptySlots = 1)
    /\ steps = 3 => numEmptySlots = 4
    /\ steps = 4 => numSlots = 0

\* C21 witness: the scenario ran to its end on four devices.
C21_Witness ==
    /\ steps = 4
    /\ last.op = "disable"
    /\ Cardinality(DOMAIN Devices) = 4
    /\ numUsedSlots = 0
    /\ numSlots = 0

\* C22: in every state, rebuilt ones included, every device that is a key of the
\* device view is the device of a slot whose deviceAdded flag is true.
C22_ViewDevicesAreAdded ==
    \A d \in DOMAIN Devices :
        /\ d.ID \in DOMAIN slotStates
        /\ slotStates[d.ID].device = d
        /\ slotStates[d.ID].enabled.deviceAdded

\* C22 witness: an agent rebuilt from the snapshot of a disabled agent has a
\* device in its view.
C22_Witness ==
    /\ last.op = "newAgentStateFromSnapshot"
    /\ ~enabled
    /\ DOMAIN Devices # {}
    /\ \E d \in DOMAIN Devices : slotStates[d.ID].enabled.deviceAdded

\* C23: in every state, rebuilt ones included, the device of a slot that is not
\* draining is a key of the device view if and only if the slot is enabled()
\* (agentEnabled and userEnabled).
C23_ViewIsEnabledSlots ==
    \A i \in DOMAIN slotStates :
        ~slotStates[i].enabled.draining
        => (slotStates[i].device \in DOMAIN Devices <=> SlotIsEnabled(slotStates[i].enabled))

\* A known slot that is not enabled() or has an occupant.
StaleSlot(ss, id) ==
    id \in DOMAIN ss /\ (~SlotIsEnabled(ss[id].enabled) \/ ss[id].containerID # Nil)

\* Every device of the list has a known slot that is enabled() and has no occupant.
AllSlotsFree(ss, devs) ==
    \A i \in DOMAIN devs :
        /\ devs[i].ID \in DOMAIN ss
        /\ SlotIsEnabled(ss[devs[i].ID].enabled)
        /\ ss[devs[i].ID].containerID = Nil

\* C24: a startContainer on the live agent that names a slot which is disabled
\* or occupied by now, whatever a deep copy taken earlier shows, returns an
\* error and leaves that slot's cached occupant as it was; the agent is not
\* stuck after the failure: the next startContainer whose slots are all known,
\* enabled and free succeeds.
C24_StalePlacementFails ==
    [][last'.op = "startContainer" =>
        \A c \in StartMessages :
            (last'.cid = c.ID /\ \E dbOK \in BOOLEAN : startContainer(c, AllocationFor[c.ID], dbOK))
            => /\ (\E d \in Range(c.Devices) : StaleSlot(slotStates, d.ID))
                    => /\ last'.err # ""
                       /\ \A d \in Range(c.Devices) :
                            StaleSlot(slotStates, d.ID)
                            => slotStates'[d.ID].containerID = slotStates[d.ID].containerID
               /\ (last.op = "startContainer" /\ last.err # "" /\ AllSlotsFree(slotStates, c.Devices))
                    => last'.err = ""]_vars

\* C24 witness: the scheduler's copy still shows a device free, its slot on the
\* live agent has meanwhile been disabled or taken by another container, and
\* the startContainer that names it was refused.
C24_Witness ==
    /\ copy # NoCopy
    /\ last.op = "startContainer"
    /\ last.err \in {"container allocated but slot is not enabled",
                     "container already allocated to slot"}
    /\ \E d \in DOMAIN copy.Devices :
        /\ copy.Devices[d] = Nil
        /\ StaleSlot(slotStates, d.ID)
        /\ slotStates[d.ID].containerID # last.cid

\* C25: a startContainer that returns no error has set the cached occupant of
\* the slot of every device of the container to the container's ID, has
\* installed the container record in containerState and has recorded
\* allocationID as the container's owner; and before the call every one of
\* those devices had a known slot that was enabled() and had no occupant.
C25_SuccessfulStart ==
    [][(last'.op = "startContainer" /\ last'.err = "") =>
        \A c \in StartMessages :
            (last'.cid = c.ID /\ \E dbOK \in BOOLEAN : startContainer(c, AllocationFor[c.ID], dbOK))
            => /\ \A d \in Range(c.Devices) :
                    d.ID \in DOMAIN slotStates' /\ slotStates'[d.ID].containerID = c.ID
               /\ c.ID \in DOMAIN containerState' /\ containerState'[c.ID] = c
               /\ c.ID \in DOMAIN containerAllocation'
               /\ containerAllocation'[c.ID] = AllocationFor[c.ID]
               /\ AllSlotsFree(slotStates, c.Devices)]_vars

\* The IDs of the devices a container message lists.
DeviceIDsOf(c) == {d.ID : d \in Range(c.Devices)}

\* C26: a containerStateChanged with a state other than Terminated sets the
\* cached occupant of every known slot among the container's devices to the
\* container ID and stores the reported record in containerState; with
\* Terminated it clears the occupant of those slots and deletes the container
\* from containerState; a device without a slot does not stop the devices
\* listed after it from being processed, and no other slot is touched.
C26_ContainerStateChanged ==
    [][last'.op = "containerStateChanged" =>
        \A c \in ContainerMessages :
            (last'.cid = c.ID /\ \E dbOK \in BOOLEAN : containerStateChanged(c, dbOK))
            => /\ DOMAIN slotStates' = DOMAIN slotStates
               /\ \A i \in DOMAIN slotStates :
                    slotStates'[i] =
                        IF i \in DeviceIDsOf(c)
                        THEN [slotStates[i] EXCEPT
                                !.containerID = IF c.State = Terminated THEN Nil ELSE c.ID]
                        ELSE slotStates[i]
               /\ IF c.State = Terminated
                  THEN /\ c.ID \notin DOMAIN containerState'
                       /\ \A k \in DOMAIN containerState \ {c.ID} :
                            k \in DOMAIN containerState' /\ containerState'[k] = containerState[k]
                  ELSE /\ DOMAIN containerState' = DOMAIN containerState \cup {c.ID}
                       /\ containerState'[c.ID] = c
                       /\ \A k \in DOMAIN containerState \ {c.ID} :
                            containerState'[k] = containerState[k]]_vars

\* C26 witness: the report listed a device without a slot before a device with
\* one, and the slot of the latter now holds the reporting container.
C26_Witness ==
    /\ last.op = "containerStateChanged"
    /\ last.cid \in DOMAIN containerState
    /\ LET devs == containerState[last.cid].Devices IN
        \E i, j \in DOMAIN devs :
            /\ i < j
            /\ devs[i].ID \notin DOMAIN slotStates
            /\ devs[j].ID \in DOMAIN slotStates
            /\ slotStates[devs[j].ID].containerID = last.cid

\* C27: agentStarted on an agent as newAgentState built it (no slots, no
\* devices, enabled, not draining) gives every reported device a slot with
\* agentEnabled, userEnabled and deviceAdded true and draining false, makes
\* every reported device a key of Devices with no occupant, and makes numSlots
\* the number of distinct reported devices.
C27_AgentStartedOnFreshAgent ==
    [][(/\ last'.op = "agentStarted"
        /\ slotStates = EmptyMap /\ Devices = EmptyMap
        /\ enabled /\ ~draining) =>
        \A devs \in Inventories :
            (\E dbOK \in BOOLEAN : agentStarted(devs, dbOK))
            => /\ \A d \in Range(devs) :
                    /\ d.ID \in DOMAIN slotStates'
                    /\ slotStates'[d.ID].enabled = slotEnabled(TRUE, TRUE, TRUE, FALSE)
                    /\ d \in DOMAIN Devices'
                    /\ Devices'[d] = Nil
               /\ numSlots' = Cardinality(Range(devs))]_vars

\* C27 witness: a fresh agent has just registered two devices.
C27_Witness ==
    /\ last.op = "agentStarted"
    /\ steps = 1
    /\ Cardinality(DOMAIN slotStates) = 2
    /\ numSlots = 2

\* What re-enabling the slot with ID i must have done to the device view.
ReEnabled(i) ==
    LET s == slotStates[i] IN
    IF s.device \in DOMAIN Devices
    THEN Devices' = Devices
    ELSE /\ s.device \in DOMAIN Devices'
         /\ Devices'[s.device] = s.containerID
         /\ slotStates'[i].enabled.deviceAdded

\* C28: when a patch sets userEnabled of a slot back to true, a device that
\* was out of Devices is added back with the slot's cached occupant (nil if
\* none) and deviceAdded becomes true; if the device is already in Devices,
\* Devices is left unchanged.
C28_ReEnableRestoresDevice ==
    [][/\ last'.op = "patchSlotState" =>
            \A id \in DOMAIN slotStates :
                (/\ ~slotStates[id].enabled.userEnabled
                 /\ \E dr \in OptBool : patchSlotState(id, {TRUE}, dr))
                => ReEnabled(id)
       /\ last'.op = "patchAllSlotsState" =>
            ((/\ \A id \in DOMAIN slotStates : ~slotStates[id].enabled.userEnabled
              /\ \E dr \in OptBool : patchAllSlotsState({TRUE}, dr))
             => \A id \in DOMAIN slotStates :
                    LET s == slotStates[id] IN
                    IF s.device \in DOMAIN Devices
                    THEN s.device \in DOMAIN Devices' /\ Devices'[s.device] = Devices[s.device]
                    ELSE /\ s.device \in DOMAIN Devices'
                         /\ Devices'[s.device] = s.containerID
                         /\ slotStates'[id].enabled.deviceAdded)]_vars

\* The force-release of container cid's allocation is among the messages the
\* last operation published.
ReleasePublished(cid) ==
    BagIn(ReleaseResources(AllocationOf(containerAllocation, cid)), published)

\* The step processes a containerStateChanged(Terminated) for container cid.
TerminatedReportFor(cid) ==
    /\ last'.op = "containerStateChanged"
    /\ last'.cid = cid
    /\ \E devs \in DeviceLists, dbOK \in BOOLEAN :
            containerStateChanged(Container(cid, Terminated, devs), dbOK)

\* The step processes a clearUnlessRecovered whose recovered set excludes cid.
ClearedAsLost(cid) ==
    /\ last'.op = "clearUnlessRecovered"
    /\ \E R \in SUBSET (ContainerIDs \ {cid}), dbOK \in BOOLEAN : clearUnlessRecovered(R, dbOK)

\* C29: disabling (a patch of one slot or of all slots, disable, enable) changes
\* no slot's cached occupant and no container record; and once the
\* force-release for a disabled slot's occupant is published, the slot's
\* occupant stays set over the next operation unless that operation is a
\* containerStateChanged(Terminated) for that container or a
\* clearUnlessRecovered whose recovered set excludes it.
C29_ForceReleaseIsFireAndForget ==
    [][/\ last'.op \in {"patchSlotState", "patchAllSlotsState", "disable", "enable"} =>
            /\ containerState' = containerState
            /\ \A i \in DOMAIN slotStates :
                    slotStates'[i].containerID = slotStates[i].containerID
       /\ \A i \in DOMAIN slotStates :
            LET s == slotStates[i] IN
            (/\ s.containerID # Nil
             /\ ~SlotIsEnabled(s.enabled)
             /\ ReleasePublished(s.containerID))
            => \/ slotStates'[i].containerID # Nil
               \/ TerminatedReportFor(s.containerID)
               \/ ClearedAsLost(s.containerID)]_vars

\* The containers the agent state refers to: occupants of Devices, cached
\* occupants of slots, tracked containers and containers with an owner recorded.
ReferencedContainers ==
    ({Devices[d] : d \in DOMAIN Devices} \ {Nil})
        \cup ({slotStates[i].containerID : i \in DOMAIN slotStates} \ {Nil})
        \cup DOMAIN containerState
        \cup DOMAIN containerAllocation

\* C30: clearUnlessRecovered(R) writes a snapshot exactly when it cleared or
\* removed an entry of Devices, slotStates, containerState or
\* containerAllocation; when every container the state refers to is in R it
\* changes nothing, writes nothing and returns nil; and after any call with R
\* every container still referred to is in R, so a second call with the same R
\* right after is such a call.
C30_ClearWritesIffChanged ==
    [][last'.op = "clearUnlessRecovered" =>
        \A R \in SUBSET ContainerIDs :
            (\E dbOK \in BOOLEAN : clearUnlessRecovered(R, dbOK))
            => /\ (persisted' # NoWrite)
                    <=> (<<Devices, slotStates, containerState, containerAllocation>>'
                            # <<Devices, slotStates, containerState, containerAllocation>>)
               /\ ReferencedContainers \subseteq R
                    => /\ UNCHANGED <<Devices, slotStates, containerState, containerAllocation>>
                       /\ persisted' = NoWrite
                       /\ last'.err = ""
               /\ ReferencedContainers' \subseteq R]_vars

\* C30 witness: a clearUnlessRecovered dropped a lost container, kept a
\* recovered one and wrote the snapshot.
C30_Witness ==
    /\ last.op = "clearUnlessRecovered"
    /\ persisted \notin {NoWrite, WriteFailed}
    /\ containerState # EmptyMap

\* C31: for every device of Devices, the occupant Devices records is the cached
\* occupant of that device's slot.
C31_ViewMatchesSlotOccupant ==
    \A d \in DOMAIN Devices :
        d.ID \in DOMAIN slotStates /\ Devices[d] = slotStates[d.ID].containerID

\* Device d of the agent is not free for another container while c holds it:
\* it is out of the view, or in it with occupant c.
HeldBy(devs, d, c) ==
    /\ d.ID \in DOMAIN slotStates
    /\ d \notin DOMAIN devs \/ devs[d] = c

\* C32: a device listed on the record of a tracked container c, and held by c
\* in Devices, is still held by c after every operation that leaves c's record
\* as it is, unless the operation is deallocateContainer(c) or
\* clearUnlessRecovered; in particular a patch that disables or re-enables the
\* device's slot does not free the device.
C32_AllocationHoldsDevices ==
    [][\A c \in DOMAIN containerState :
        \A d \in Range(containerState[c].Devices) :
            (/\ HeldBy(Devices, d, c)
             /\ c \in DOMAIN containerState'
             /\ containerState'[c] = containerState[c]
             /\ last'.op # "clearUnlessRecovered"
             /\ ~(last'.op = "deallocateContainer" /\ last'.cid = c))
            => HeldBy(Devices', d, c)]_vars

\* C33: an allocateFreeDevices(k, cid) with k >= 1 that fails, for a cid that
\* was not tracked before, leaves numUsedZeroSlots, numEmptyZeroSlots and idle
\* as they were.
C33_FailedAllocateNotCounted ==
    [][(/\ last'.op = "allocateFreeDevices"
        /\ last'.err # ""
        /\ last'.cid \notin DOMAIN containerState)
        => /\ numUsedZeroSlots' = numUsedZeroSlots
           /\ numEmptyZeroSlots' = numEmptyZeroSlots
           /\ idle' = idle]_vars

\* C34: the agent never tracks more zero-slot containers than
\* maxZeroSlotContainers, and numEmptyZeroSlots is never negative.
C34_ZeroSlotContainersCapped ==
    /\ Cardinality(ZeroSlotContainers) <= MaxZeroSlotContainers
    /\ numEmptyZeroSlots >= 0

\* C35: every occupant Devices records is a tracked container: no device stays
\* occupied by a container whose record is gone from containerState.
C35_OccupantsAreTracked ==
    \A d \in DOMAIN Devices : Devices[d] # Nil => Devices[d] \in DOMAIN containerState

\* C36: every force-release an operation published is addressed to an
\* allocation recorded in containerAllocation as the owner of a container,
\* never to the empty allocation ID.
C36_ReleaseNamesRecordedAllocation ==
    \A msg \in BagToSet(published) :
        /\ msg.AllocationID # NoAllocation
        /\ \E c \in DOMAIN containerAllocation : containerAllocation[c] = msg.AllocationID

\* C37: every container with an owner recorded in containerAllocation is a
\* tracked container: the entry goes when the container terminates or is
\* deallocated.
C37_OwnersAreTracked ==
    DOMAIN containerAllocation \subseteq DOMAIN containerState

\* C38: an allocateFreeDevices call, successful or failed, changes the occupant
\* of no device that has one: Devices keeps its keys and every occupant that
\* changes goes from nil to the requested container ID.
C38_AllocateOnlyClaimsFreeDevices ==
    [][last'.op = "allocateFreeDevices" =>
        /\ DOMAIN Devices' = DOMAIN Devices
        /\ \A d \in DOMAIN Devices :
            Devices'[d] # Devices[d] => (Devices[d] = Nil /\ Devices'[d] = last'.cid)]_vars

\* C38 witness: an allocation took a free device while another device of the
\* view keeps the container that held it.
C38_Witness ==
    /\ last.op = "allocateFreeDevices"
    /\ last.err = ""
    /\ \E d1, d2 \in DOMAIN Devices :
        /\ Devices[d1] = last.cid
        /\ Devices[d2] \notin {Nil, last.cid}

\* C39: the agent never reports more used slots than total slots, whether it
\* is enabled, draining or disabled.
C39_UsedSlotsWithinTotal == numUsedSlots <= numSlots

\* C40: at the agent level draining implies not enabled, so the agent is in
\* exactly one of the conditions enabled, draining and disabled.
C40_DrainingImpliesNotEnabled ==
    /\ draining => ~enabled
    /\ Cardinality({k \in {"enabled", "draining", "disabled"} :
            \/ k = "enabled" /\ enabled
            \/ k = "draining" /\ draining
            \/ k = "disabled" /\ ~enabled /\ ~draining}) = 1

\* C40 witness: disable(true) has put the agent in the draining condition.
C40_Witness ==
    /\ last.op = "disable"
    /\ draining
    /\ ~enabled
    /\ steps >= 2

====
